---- MODULE Spec2Model ----
(***************************************************************************)
(* Model of streamparse/cli/submit.py: one run of submit_topology against  *)
(* a Storm coordinator (Nimbus).  The program is single-threaded; pc is    *)
(* its position between two blocking external calls.  The coordinator's    *)
(* job table is the environment: it changes by the kill and submit         *)
(* commands of this run and by the coordinator removing killed jobs.       *)
(***************************************************************************)
EXTENDS Integers, Sequences, FiniteSets, TLC

\* ---------------------------------------------------------------- bounds
\* The poll loop of _kill_existing_topology is unbounded in the code; the
\* model stops exploring after MaxPolls unsuccessful polls.
MaxPolls == 3

\* ------------------------------------------------------------- vocabulary
\* Job names are sequences of characters, so that the regular expression of
\* is_safe_to_submit can be run on the listing text character by character.
\* The names hold no regex metacharacter (the code does not escape them).
Names == { <<"b">>, <<"a", "b">> }
\* The order in which the list command prints its rows.
NameOrder == << <<"a", "b">>, <<"b">> >>
\* Status column of the coordinator's listing; ABSENT jobs have no row.
RowStates == {"ACTIVE", "KILLED", "INACTIVE"}
JobStates == RowStates \cup {"ABSENT"}
\* wait=None is -1.
Waits == {-1, 5}
HookModules == {"invoke", "fabric"}

VARIABLES
    pc,             \* position of submit_topology
    failedAt,       \* the step whose exception ended the run, or "none"
    trace,          \* the calls made so far, in order: [call, ok]
    jobs,           \* coordinator: job name -> state
    tunnel,         \* "none", "open" or "closed"
    topology_name,  \* argument name
    force,          \* argument force
    wait,           \* argument wait
    use_venv,       \* env_config.get('use_virtualenv', True)
    use_ssh,        \* is_ssh_for_nimbus(env_config)
    listings,       \* stdout of every successful list command, in order
    verdicts,       \* every value is_safe_to_submit returned, in order
    kills,          \* every kill command issued: [name, wait]
    polls,          \* iterations of the while loop of line 90 so far
    submitState,    \* coordinator state of the job when submit was issued
    topology_jar,   \* result of jar_for_deploy, << >> before the build
    workers,        \* argument workers
    ackers,         \* argument ackers
    debug,          \* argument debug
    options,        \* argument options: a sequence of option strings
    log_config,     \* env_config["log"]: path, max_bytes, backup_count, level
    env_log_path,   \* env_config["log_path"], "" when not set
    env_jvm_opts,   \* JVM_OPTS of the process when the run starts
    jvm_opts,       \* os.environ["JVM_OPTS"]
    cmd,            \* the list cmd of _submit_topology, << >> before the call
    hookTunnel      \* the tunnel as the post-submit hooks found it

vars == << pc, failedAt, trace, jobs, tunnel, topology_name, force, wait,
           use_venv, use_ssh, listings, verdicts, kills, polls, submitState,
           topology_jar, workers, ackers, debug, options, log_config,
           env_log_path, env_jvm_opts, jvm_opts, cmd, hookTunnel >>

args == << topology_name, force, wait, use_venv, use_ssh, workers, ackers,
           debug, options, log_config, env_log_path, env_jvm_opts >>

\* What only _submit_topology and the post-submit hooks change.
sub == << jvm_opts, cmd, hookTunnel >>

\* ------------------------------------------------------- the listing text
Space == {" ", "NL"}

\* One row of the list command's output: `<name> | <STATE> | <uptime>`.
Row(n, st) == n \o << " ", "|", " ", st, " ", "|", " ", "0", "NL" >>

RECURSIVE RenderFrom(_, _)
RenderFrom(j, i) ==
    IF i > Len(NameOrder) THEN << >>
    ELSE (IF j[NameOrder[i]] = "ABSENT" THEN << >>
          ELSE Row(NameOrder[i], j[NameOrder[i]])) \o RenderFrom(j, i + 1)

\* stdout of _list_topologies for the coordinator state j.
list_topologies(j) == RenderFrom(j, 1)

\* ------------------------------------------------------------ the regex
\* \s+ followed by a non-space token: the index after the run of spaces.
RECURSIVE SkipSpace(_, _)
SkipSpace(text, i) ==
    IF i <= Len(text) /\ text[i] \in Space THEN SkipSpace(text, i + 1) ELSE i

\* r"{}\s+\|\s+(ACTIVE|KILLED)\s+\|".format(name) matched at position i.
MatchAt(name, text, i) ==
    LET j == i + Len(name) IN
    /\ j - 1 <= Len(text)
    /\ SubSeq(text, i, j - 1) = name
    /\ LET k == SkipSpace(text, j) IN
       /\ k > j /\ k <= Len(text) /\ text[k] = "|"
       /\ LET m == SkipSpace(text, k + 1) IN
          /\ m > k + 1 /\ m <= Len(text) /\ text[m] \in {"ACTIVE", "KILLED"}
          /\ LET p == SkipSpace(text, m + 1) IN
             p > m + 1 /\ p <= Len(text) /\ text[p] = "|"

\* re.search(pattern, stdout): a match anywhere in the text.
re_search(name, text) == \E i \in 1..Len(text) : MatchAt(name, text, i)

\* The value is_safe_to_submit returns when the list command succeeded.
is_safe_to_submit(name, stdout) == ~ re_search(name, stdout)

\* ---------------------------------------------------------------- events
\* A call that returned, and a call that raised (or exited non-zero).
Returned(call) == [call |-> call, ok |-> TRUE]
Threw(call) == [call |-> call, ok |-> FALSE]
Outcome(call, ok) == [call |-> call, ok |-> ok]

\* ------------------------------------------------------------- the hooks
\* get_user_tasks: both modules, or (None, None) when either import fails.
get_user_tasks(importable) ==
    IF importable = HookModules THEN HookModules ELSE {}

HookEvent(kind, m) ==
    IF kind = "pre_submit"
    THEN (IF m = "invoke" THEN "pre_submit_invoke" ELSE "pre_submit_fabric")
    ELSE (IF m = "invoke" THEN "post_submit_invoke" ELSE "post_submit_fabric")

\* The hooks called by _pre_submit_hooks / _post_submit_hooks, in order, up
\* to and including the first that raises.  defined: the modules that
\* define the callable; raising: the modules whose callable raises.
HookCalls(kind, importable, defined, raising) ==
    LET callable == get_user_tasks(importable) \cap defined
        inv == "invoke" \in callable
        invRaises == inv /\ "invoke" \in raising
    IN  (IF inv
         THEN << Outcome(HookEvent(kind, "invoke"), ~invRaises) >>
         ELSE << >>)
        \o (IF ~invRaises /\ "fabric" \in callable
            THEN << Outcome(HookEvent(kind, "fabric"),
                            "fabric" \notin raising) >>
            ELSE << >>)

\* Faulty variant of HookRaises: the hook's exception caught and dropped.
HookRaisesSwallowed(importable, defined, raising) == FALSE

\* Lines 169, 172, 181, 184: the call is not guarded, so a hook that raises
\* makes the hook runner raise.
HookRaises(importable, defined, raising) ==
    (get_user_tasks(importable) \cap defined \cap raising) # {}

\* --------------------------------------------------------- the ssh tunnel
\* contextmanagers.ssh_tunnel leaving its scope: the forward is torn down.
ssh_tunnel_exit(t) == "closed"

\* Faulty variant of WithExit: the tunnel opened without a with statement and
\* never released.
WithExitSkipped(t) == t

\* The `with ssh_tunnel(...)` statement of line 217 being left, normally or
\* by an exception; outside the block (direct path) there is no tunnel.
WithExit(t) == IF t = "open" THEN ssh_tunnel_exit(t) ELSE t

\* An exception leaving submit_topology at the given step.
Raised(step) ==
    /\ pc' = "failed"
    /\ failedAt' = step
    /\ tunnel' = WithExit(tunnel)

\* ------------------------------------------------------- the step order
\* Faulty variant of StepAfter: the virtualenv update moved before the hooks.
StepAfterUpdateFirst(step) ==
    CASE step = "start" -> "activate_env"
      [] step = "activate_env" -> "create_or_update_virtualenvs"
      [] step = "create_or_update_virtualenvs" -> "pre_submit_hooks"
      [] step = "pre_submit_hooks" -> "jar_for_deploy"
      [] step = "jar_for_deploy" -> "connect"
      [] step = "connect" -> "kill_existing_topology"

\* The statement order of submit_topology, lines 190-220/226.
StepAfter(step) ==
    CASE step = "start" -> "activate_env"
      [] step = "activate_env" -> "pre_submit_hooks"
      [] step = "pre_submit_hooks" -> "create_or_update_virtualenvs"
      [] step = "create_or_update_virtualenvs" -> "jar_for_deploy"
      [] step = "jar_for_deploy" -> "connect"
      [] step = "connect" -> "kill_existing_topology"

\* ------------------------------------------------------ the built artifact
\* Tokens of `lein uberjar`'s stdout after split(): leiningen prints
\* `Created <absolute path>` for the plain jar and for the standalone jar.
CreatedWord == << "C", "r", "e", "a", "t", "e", "d" >>
PlainJar == << "/", "t", "a", "r", "/", "w.jar" >>
StandaloneJar == << "/", "t", "a", "r", "/", "w-", "standalone.jar" >>
UberjarStdout(out) ==
    IF out = "no_jar" THEN << CreatedWord, PlainJar >>
    ELSE << CreatedWord, PlainJar, CreatedWord, StandaloneJar >>

\* The characters str.lstrip("Created ") removes.
CreatedChars == {"C", "r", "e", "a", "t", "d", " "}

\* Faulty variant of lstrip_created: lstrip("Created /").
RECURSIVE lstrip_created_slash(_)
lstrip_created_slash(l) ==
    IF l # << >> /\ Head(l) \in CreatedChars \cup {"/"}
    THEN lstrip_created_slash(Tail(l)) ELSE l

\* Line 59: l.strip().lstrip("Created ").
RECURSIVE lstrip_created(_)
lstrip_created(l) ==
    IF l # << >> /\ Head(l) \in CreatedChars
    THEN lstrip_created(Tail(l)) ELSE l

EndsWithStandaloneJar(l) == l # << >> /\ l[Len(l)] = "standalone.jar"

\* Lines 58-60: the list `lines` of jar_for_deploy.
RECURSIVE uberjar_lines(_)
uberjar_lines(tokens) ==
    IF tokens = << >> THEN << >>
    ELSE (IF EndsWithStandaloneJar(Head(tokens))
          THEN << lstrip_created(Head(tokens)) >> ELSE << >>)
         \o uberjar_lines(Tail(tokens))

\* ------------------------------------------------------ the submit command
\* User option strings, as sequences of tokens.
Reserved == "deployment_stage"
OptPlain == << "foo", "=", "bar" >>
OptStage == << "deployment_stage", "=", "prod" >>
OptStageInValue == << "foo", "=", "deployment_stage" >>
OptStageNoEq == << "deployment_stage" >>
OptStageTwoEq == << "deployment_stage", "=", "a", "=", "b" >>
OptionStrings ==
    {OptPlain, OptStage, OptStageInValue, OptStageNoEq, OptStageTwoEq}

\* Configuration values with their Python type; v is what format() prints.
CfgNone == [t |-> "none", v |-> ""]
CfgInt(v) == [t |-> "int", v |-> v]
CfgStr(v) == [t |-> "str", v |-> v]
CfgFloat(v) == [t |-> "float", v |-> v]

\* env_config["virtualenv_root"], the topology file, and the coordinator
\* endpoint of get_nimbus_for_env_config.
virtualenv_root == "/data/virtualenvs"
topology_file == "topologies/w.clj"
nimbus_host == "nimbus"
nimbus_port == "6627"

\* str.lower() on the level names of the model.
Lower(str) ==
    CASE str = "DEBUG" -> "debug"
      [] str = "Info" -> "info"
      [] OTHER -> str

\* option.split("=").
RECURSIVE Split(_)
Split(o) ==
    IF \A i \in DOMAIN o : o[i] # "="
    THEN << o >>
    ELSE LET i == CHOOSE i \in DOMAIN o :
                      o[i] = "=" /\ \A j \in 1..(i - 1) : o[j] # "="
         IN  << SubSeq(o, 1, i - 1) >> \o Split(SubSeq(o, i + 1, Len(o)))

\* "--option '{}'".format(body).
Option(body) == << "--option ", "SQ" >> \o body \o << "SQ" >>

\* Lines 101-106: " ".join(jvm_opts).
JvmOpts(jar) ==
    << "-Dstorm.jar=" >> \o jar
        \o << " ", "-Dstorm.options=", " ", "-Dstorm.conf.file=" >>

\* Lines 107-117.
BaseCmd(host, port, dbg) ==
    << << "lein" >>,
       << "run -m streamparse.commands.submit_topology/-main" >>,
       << topology_file >> >>
    \o (IF host # "" THEN << << "--host ", host >> >> ELSE << >>)
    \o (IF port # "" THEN << << "--port ", port >> >> ELSE << >>)
    \o (IF dbg THEN << << "--debug" >> >> ELSE << >>)

\* Faulty variant of TopologyOptions: the two appends exchanged.
TopologyOptionsSwapped(w, a) ==
    << Option(<< "topology.acker.executors", "=", ToString(a) >>),
       Option(<< "topology.workers", "=", ToString(w) >>) >>

\* Lines 119-120.
TopologyOptions(w, a) ==
    << Option(<< "topology.workers", "=", ToString(w) >>),
       Option(<< "topology.acker.executors", "=", ToString(a) >>) >>

\* Lines 122-126.
PythonPathOption(venv, name) ==
    IF venv
    THEN << Option(<< "topology.python.path", "=", "DQ", virtualenv_root,
                      "/" >> \o name \o << "/", "bin", "/", "python", "DQ" >>) >>
    ELSE << >>

\* Faulty variant of IsInt: the isinstance test dropped for set values.
IsSet(val) == val.t # "none"

\* isinstance(val, int), lines 136 and 139.
IsInt(val) == val.t = "int"

\* isinstance(val, string_types), line 142.
IsString(val) == val.t = "str"

\* Lines 129-144.
LogOptions(cfg, envpath) ==
    LET log_path == IF cfg.path # "" THEN cfg.path ELSE envpath IN
    (IF log_path # ""
     THEN << Option(<< "streamparse.log.path", "=", "DQ", log_path, "DQ" >>) >>
     ELSE << >>)
    \o (IF IsInt(cfg.max_bytes)
        THEN << Option(<< "streamparse.log.max_bytes", "=",
                          cfg.max_bytes.v >>) >>
        ELSE << >>)
    \o (IF IsInt(cfg.backup_count)
        THEN << Option(<< "streamparse.log.backup_count", "=",
                          cfg.backup_count.v >>) >>
        ELSE << >>)
    \o (IF IsString(cfg.level)
        THEN << Option(<< "streamparse.log.level", "=", "DQ",
                          Lower(cfg.level.v), "DQ" >>) >>
        ELSE << >>)

\* Line 151: `"deployment_stage" in option`, on the whole option string.
InOption(o) == \E i \in DOMAIN o : o[i] = Reserved

\* Faulty variant of UnpackFails: the malformed option passed on as it is.
UnpackNeverFails(o) == FALSE

\* Line 152: `key, val = option.split("=")` raises ValueError unless the
\* split gives exactly two parts.
UnpackFails(o) == InOption(o) /\ Len(Split(o)) # 2

\* Lines 151-155: the element appended for one user option.
UserOption(o) ==
    IF InOption(o) /\ Len(Split(o)) = 2
    THEN << "--option ", "SQ" >> \o Split(o)[1] \o << "=", "DQ" >>
            \o Split(o)[2] \o << "DQ", "SQ" >>
    ELSE << "--option " >> \o o

\* Lines 146-155: the elements appended by the loop, up to the option whose
\* unpacking raises.
RECURSIVE UserOptions(_)
UserOptions(opts) ==
    IF opts = << >> \/ UnpackFails(Head(opts)) THEN << >>
    ELSE << UserOption(Head(opts)) >> \o UserOptions(Tail(opts))

OptionsRaise(opts) == \E i \in DOMAIN opts : UnpackFails(opts[i])

\* ------------------------------------------------------------------- Init
\* The option lists of the runs of the whole program: a well-formed one and
\* one whose second option cannot be unpacked.
MainOptions == { << OptPlain >>, << OptStage, OptStageNoEq >> }

Init ==
    /\ pc = "start"
    /\ failedAt = "none"
    /\ trace = << >>
    /\ jobs \in [Names -> JobStates]
    /\ tunnel = "none"
    /\ topology_name \in Names
    /\ force \in BOOLEAN
    /\ wait \in Waits
    /\ use_venv \in BOOLEAN
    /\ use_ssh \in BOOLEAN
    /\ listings = << >>
    /\ verdicts = << >>
    /\ kills = << >>
    /\ polls = 0
    /\ submitState = "none"
    /\ topology_jar = << >>
    /\ workers = 2
    /\ ackers = 1
    /\ debug = FALSE
    /\ options \in MainOptions
    /\ log_config = [path |-> "/log", max_bytes |-> CfgInt("1000"),
                     backup_count |-> CfgNone, level |-> CfgStr("DEBUG")]
    /\ env_log_path = ""
    /\ env_jvm_opts = << "-Xmx1g" >>
    /\ jvm_opts = env_jvm_opts
    /\ cmd = << >>
    /\ hookTunnel = "unset"

\* ---------------------------------------------------------------- actions
\* Lines 190-195: prepare_topology, get_config, get_topology_definition,
\* get_env_config, get_nimbus_for_env_config.
resolve_config ==
    /\ pc = "start"
    /\ trace' = Append(trace, Returned("resolve"))
    /\ pc' = StepAfter("start")
    /\ UNCHANGED << failedAt, jobs, tunnel, args, sub, listings, verdicts, kills,
                    polls, submitState, topology_jar >>

\* Lines 198-200.
activate_env ==
    /\ pc = "activate_env"
    /\ trace' = IF use_venv THEN Append(trace, Returned("activate_env"))
                ELSE trace
    /\ pc' = StepAfter("activate_env")
    /\ UNCHANGED << failedAt, jobs, tunnel, args, sub, listings, verdicts, kills,
                    polls, submitState, topology_jar >>

\* Line 202 and _pre_submit_hooks.
pre_submit_hooks ==
    /\ pc = "pre_submit_hooks"
    /\ \E importable \in SUBSET HookModules, defined \in SUBSET HookModules,
          raising \in SUBSET HookModules :
          /\ trace' = trace
                \o HookCalls("pre_submit", importable, defined, raising)
          /\ IF HookRaises(importable, defined, raising)
             THEN Raised("pre_submit_hooks")
             ELSE /\ pc' = StepAfter("pre_submit_hooks")
                  /\ UNCHANGED << failedAt, tunnel >>
    /\ UNCHANGED << jobs, args, sub, listings, verdicts, kills, polls,
                    submitState, topology_jar >>

\* Lines 204-208.
create_or_update_virtualenvs ==
    /\ pc = "create_or_update_virtualenvs"
    /\ \E ok \in BOOLEAN :
          IF use_venv
          THEN /\ trace' = Append(trace,
                              Outcome("create_or_update_virtualenvs", ok))
               /\ IF ok
                  THEN /\ pc' = StepAfter("create_or_update_virtualenvs")
                       /\ UNCHANGED << failedAt, tunnel >>
                  ELSE Raised("create_or_update_virtualenvs")
          ELSE /\ pc' = StepAfter("create_or_update_virtualenvs")
               /\ UNCHANGED << trace, failedAt, tunnel >>
    /\ UNCHANGED << jobs, args, sub, listings, verdicts, kills, polls,
                    submitState, topology_jar >>

\* The commands jar_for_deploy runs for each outcome of the build.
BuildCalls(out) ==
    CASE out = "clean_failed" -> << Threw("lein_clean") >>
      [] out = "uberjar_failed" ->
            << Returned("lein_clean"), Threw("lein_uberjar") >>
      [] out = "no_jar" ->
            << Returned("lein_clean"), Returned("lein_uberjar"),
               Threw("uberjar_path") >>
      [] out = "ok" ->
            << Returned("lein_clean"), Returned("lein_uberjar"),
               Returned("uberjar_path") >>

\* Faulty variant of BuildFailed: the result of lein uberjar not checked.
BuildFailedCleanOnly(out) ==
    \/ out = "clean_failed"
    \/ uberjar_lines(UberjarStdout(out)) = << >>

\* Lines 47-50, 53-56, 61: a failed lein clean, a failed lein uberjar and an
\* output naming no standalone jar each raise.
BuildFailed(out) ==
    \/ out \in {"clean_failed", "uberjar_failed"}
    \/ uberjar_lines(UberjarStdout(out)) = << >>

\* Line 211 and jar_for_deploy.
jar_for_deploy ==
    /\ pc = "jar_for_deploy"
    /\ \E out \in {"ok", "clean_failed", "uberjar_failed", "no_jar"} :
          /\ trace' = trace \o BuildCalls(out)
          /\ IF BuildFailed(out)
             THEN /\ Raised("jar_for_deploy")
                  /\ UNCHANGED topology_jar
             ELSE /\ pc' = StepAfter("jar_for_deploy")
                  /\ topology_jar' = Head(uberjar_lines(UberjarStdout(out)))
                  /\ UNCHANGED << failedAt, tunnel >>
    /\ UNCHANGED << jobs, args, sub, listings, verdicts, kills, polls,
                    submitState >>

\* Lines 216-219: enter the ssh tunnel, or go on directly.
connect ==
    /\ pc = "connect"
    /\ \E ok \in BOOLEAN :
          IF use_ssh
          THEN /\ trace' = Append(trace, Outcome("ssh_tunnel", ok))
               /\ IF ok
                  THEN /\ tunnel' = "open"
                       /\ pc' = StepAfter("connect")
                       /\ UNCHANGED failedAt
                  ELSE /\ pc' = "failed"
                       /\ failedAt' = "ssh_tunnel"
                       /\ UNCHANGED tunnel
          ELSE /\ pc' = StepAfter("connect")
               /\ UNCHANGED << failedAt, tunnel, trace >>
    /\ UNCHANGED << jobs, args, sub, listings, verdicts, kills, polls,
                    submitState, topology_jar >>

\* -------------------------------------------------------- the safety check
\* Faulty variant of ListFailedRaises: result.failed not tested.
ListFailedIgnored == FALSE

\* Lines 73-74: a failed list command makes is_safe_to_submit raise.
ListFailedRaises == TRUE

\* One call of is_safe_to_submit; ok: the list command succeeded.  Without
\* lines 73-74 the verdict would be computed from the failed result's empty
\* stdout.
SafetyCheck(ok) ==
    LET stdout == IF ok THEN list_topologies(jobs) ELSE << >> IN
    [ listing |-> [ok |-> ok, stdout |-> stdout],
      raised  |-> ~ok /\ ListFailedRaises,
      safe    |-> is_safe_to_submit(topology_name, stdout) ]

\* kill._kill_topology on the coordinator: the job is marked KILLED and
\* stays listed until the coordinator removes it.
kill_topology(j, n) ==
    [j EXCEPT ![n] = IF @ \in {"ACTIVE", "INACTIVE"} THEN "KILLED" ELSE @]

\* Line 85, `force and not is_safe_to_submit(...)`: the listing is requested
\* only when f holds; the kill branch is entered when it shows the job.
kill_existing_check(f) ==
    /\ pc = "kill_existing_topology"
    /\ \E ok \in BOOLEAN :
          IF f
          THEN LET c == SafetyCheck(ok) IN
               /\ listings' = Append(listings, c.listing)
               /\ trace' = Append(trace, Outcome("list", ok))
               /\ IF c.raised
                  THEN /\ Raised("is_safe_to_submit")
                       /\ UNCHANGED verdicts
                  ELSE /\ verdicts' = Append(verdicts, c.safe)
                       /\ pc' = IF c.safe THEN "submit" ELSE "kill"
                       /\ UNCHANGED << failedAt, tunnel >>
          ELSE /\ pc' = "submit"
               /\ UNCHANGED << failedAt, tunnel, trace, listings, verdicts >>
    /\ UNCHANGED << jobs, args, sub, kills, polls, submitState, topology_jar >>

\* Faulty variant of kill_existing_topology: the force test dropped.
kill_existing_unforced == kill_existing_check(TRUE)

\* Lines 220 / 226: _kill_existing_topology(name, force, wait) up to its
\* first blocking call.
kill_existing_topology == kill_existing_check(force)

\* Lines 86-89: the kill command, with the wait budget.
kill ==
    /\ pc = "kill"
    /\ kills' = Append(kills, [name |-> topology_name, wait |-> wait])
    /\ \E ok \in BOOLEAN :
          /\ trace' = Append(trace, Outcome("kill", ok))
          /\ IF ok
             THEN /\ jobs' = kill_topology(jobs, topology_name)
                  /\ pc' = "poll"
                  /\ UNCHANGED << failedAt, tunnel >>
             ELSE /\ Raised("kill_topology")
                  /\ UNCHANGED jobs
    /\ UNCHANGED << args, sub, listings, verdicts, polls, submitState,
                    topology_jar >>

\* Faulty variant of poll: the verdict computed again from the listing
\* taken before the kill command.
poll_cached ==
    /\ pc = "poll"
    /\ polls < MaxPolls
    /\ LET safe == is_safe_to_submit(topology_name, listings[1].stdout) IN
       /\ verdicts' = Append(verdicts, safe)
       /\ pc' = IF safe THEN "submit" ELSE "poll"
       /\ polls' = IF safe THEN polls ELSE polls + 1
    /\ UNCHANGED << failedAt, tunnel, trace, listings, jobs, args, sub,
                    kills, submitState, topology_jar >>

\* Lines 90-95: one evaluation of the while condition.
poll ==
    /\ pc = "poll"
    /\ polls < MaxPolls
    /\ \E ok \in BOOLEAN :
          LET c == SafetyCheck(ok) IN
          /\ listings' = Append(listings, c.listing)
          /\ trace' = Append(trace, Outcome("list", ok))
          /\ IF c.raised
             THEN /\ Raised("is_safe_to_submit")
                  /\ UNCHANGED << verdicts, polls >>
             ELSE /\ verdicts' = Append(verdicts, c.safe)
                  /\ pc' = IF c.safe THEN "submit" ELSE "poll"
                  /\ polls' = IF c.safe THEN polls ELSE polls + 1
                  /\ UNCHANGED << failedAt, tunnel >>
    /\ UNCHANGED << jobs, args, sub, kills, submitState, topology_jar >>

\* The coordinator accepts a submission only of a name it does not hold
\* (Storm answers AlreadyAliveException otherwise).
SubmitAccepted(j, n) == j[n] = "ABSENT"

\* Faulty variant of SubmitFailedRaises: run(full_cmd, warn=True).
SubmitFailedIgnored == FALSE

\* Line 160: invoke's run raises when the command exits non-zero.
SubmitFailedRaises == TRUE

\* Lines 107-155: the list cmd as _submit_topology has built it when it
\* runs the command or raises; the ssh path passes no host and port.
SubmitCmd ==
    BaseCmd(IF use_ssh THEN "" ELSE nimbus_host,
            IF use_ssh THEN "" ELSE nimbus_port, debug)
    \o TopologyOptions(workers, ackers)
    \o PythonPathOption(use_venv, topology_name)
    \o LogOptions(log_config, env_log_path)
    \o UserOptions(options)

\* Lines 221-222 / 227-229 and _submit_topology.
submit ==
    /\ pc = "submit"
    /\ jvm_opts' = JvmOpts(topology_jar)
    /\ cmd' = SubmitCmd
    /\ IF OptionsRaise(options)
       THEN /\ Raised("option_format")
            /\ UNCHANGED << trace, jobs, submitState >>
       ELSE /\ submitState' = jobs[topology_name]
            /\ \E ok \in BOOLEAN :
                  /\ trace' = Append(trace,
                        Outcome("submit",
                                ok /\ SubmitAccepted(jobs, topology_name)))
                  /\ IF ok /\ SubmitAccepted(jobs, topology_name)
                     THEN /\ jobs' = [jobs EXCEPT ![topology_name] = "ACTIVE"]
                          /\ pc' = "post_submit_hooks"
                          /\ UNCHANGED << failedAt, tunnel >>
                     ELSE /\ UNCHANGED jobs
                          /\ IF SubmitFailedRaises
                             THEN Raised("submit_topology")
                             ELSE /\ pc' = "post_submit_hooks"
                                  /\ UNCHANGED << failedAt, tunnel >>
    /\ UNCHANGED << args, hookTunnel, listings, verdicts, kills, polls,
                    topology_jar >>

\* Lines 223 / 230 and _post_submit_hooks, then the end of the with block.
post_submit_hooks ==
    /\ pc = "post_submit_hooks"
    /\ \E importable \in SUBSET HookModules, defined \in SUBSET HookModules,
          raising \in SUBSET HookModules :
          /\ trace' = trace
                \o HookCalls("post_submit", importable, defined, raising)
          /\ hookTunnel' =
                IF HookCalls("post_submit", importable, defined, raising)
                       # << >>
                THEN tunnel ELSE hookTunnel
          /\ IF HookRaises(importable, defined, raising)
             THEN Raised("post_submit_hooks")
             ELSE /\ pc' = "done"
                  /\ tunnel' = WithExit(tunnel)
                  /\ UNCHANGED failedAt
    /\ UNCHANGED << jobs, args, jvm_opts, cmd, listings, verdicts, kills,
                    polls, submitState, topology_jar >>

\* The coordinator removes a killed job from its table, at any time during
\* the run.
coordinator_removes ==
    /\ pc \notin {"done", "failed"}
    /\ \E n \in Names :
          /\ jobs[n] = "KILLED"
          /\ jobs' = [jobs EXCEPT ![n] = "ABSENT"]
    /\ UNCHANGED << pc, failedAt, trace, tunnel, args, sub, listings, verdicts,
                    kills, polls, submitState, topology_jar >>

Next ==
    \/ resolve_config
    \/ activate_env
    \/ pre_submit_hooks
    \/ create_or_update_virtualenvs
    \/ jar_for_deploy
    \/ connect
    \/ kill_existing_topology
    \/ kill
    \/ poll
    \/ submit
    \/ post_submit_hooks
    \/ coordinator_removes

Spec == Init /\ [][Next]_vars

\* --------------------------------------------- _submit_topology on its own
\* The longest option list of SubmitInit.
MaxOptions == 2

OptionLists ==
    UNION { [1..n -> OptionStrings] : n \in 0..MaxOptions }

LogConfigs ==
    [ path : {"", "/log"},
      max_bytes : {CfgNone, CfgInt("1000"), CfgStr("1000")},
      backup_count : {CfgInt("3"), CfgFloat("2.5")},
      level : {CfgNone, CfgStr("DEBUG"), CfgInt("10")} ]

\* The calls of a run that reached _submit_topology without force.
CallsBeforeSubmit(venv, ssh) ==
    << Returned("resolve") >>
    \o (IF venv THEN << Returned("activate_env"),
                        Returned("create_or_update_virtualenvs") >>
        ELSE << >>)
    \o BuildCalls("ok")
    \o (IF ssh THEN << Returned("ssh_tunnel") >> ELSE << >>)

\* The runs of submit_topology that have reached _submit_topology, for every
\* combination of its arguments and of the environment's configuration.
SubmitInit ==
    /\ pc = "submit"
    /\ failedAt = "none"
    /\ use_venv \in BOOLEAN
    /\ use_ssh \in BOOLEAN
    /\ trace = CallsBeforeSubmit(use_venv, use_ssh)
    /\ jobs = [n \in Names |-> "ABSENT"]
    /\ tunnel = IF use_ssh THEN "open" ELSE "none"
    /\ topology_name = << "a", "b" >>
    /\ force = FALSE
    /\ wait = -1
    /\ listings = << >>
    /\ verdicts = << >>
    /\ kills = << >>
    /\ polls = 0
    /\ submitState = "none"
    /\ topology_jar = StandaloneJar
    /\ \E wa \in { << 0, 2 >>, << 3, 0 >> } :
          workers = wa[1] /\ ackers = wa[2]
    /\ debug \in BOOLEAN
    /\ options \in OptionLists
    /\ log_config \in LogConfigs
    /\ env_log_path \in {"", "/elog"}
    /\ log_config.path = "" \/ env_log_path = ""
    /\ env_jvm_opts = << "-Xmx1g" >>
    /\ jvm_opts = env_jvm_opts
    /\ cmd = << >>
    /\ hookTunnel = "unset"

SubmitNext ==
    \/ submit
    \/ post_submit_hooks

SubmitSpec == SubmitInit /\ [][SubmitNext]_vars

\* ------------------------------------------------ vocabulary of the claims
Calls(c) == { i \in DOMAIN trace : trace[i].call = c }
Called(c) == Calls(c) # {}
CallFailed(c) == \E i \in Calls(c) : ~ trace[i].ok
Last(seq) == seq[Len(seq)]

\* The text holds a line `name | ACTIVE |` or `name | KILLED |` whose first
\* column is exactly name.
ShowsPresent(name, text) ==
    \E i \in 1..Len(text), st \in {"ACTIVE", "KILLED"} :
        LET row == name \o << " ", "|", " ", st, " ", "|" >> IN
        /\ (i = 1 \/ text[i - 1] = "NL")
        /\ i + Len(row) - 1 <= Len(text)
        /\ SubSeq(text, i, i + Len(row) - 1) = row

PostHooksCalled == Called("post_submit_invoke") \/ Called("post_submit_fabric")
PreHooksCalled == Called("pre_submit_invoke") \/ Called("pre_submit_fabric")

\* C1: the submit command is never issued while the job is ACTIVE unless
\* force is true, and with force the last listing before the submit
\* command showed the job neither ACTIVE nor KILLED.
C1_NoSubmitWhileActive ==
    submitState # "none" =>
        IF force
        THEN /\ listings # << >>
             /\ Last(listings).ok
             /\ ~ ShowsPresent(topology_name, Last(listings).stdout)
        ELSE submitState # "ACTIVE"

\* C2: every verdict of is_safe_to_submit is False exactly when the listing
\* it was computed from holds a line `N | ACTIVE |` or `N | KILLED |` for
\* the job named exactly N.
C2_VerdictIffJobListed ==
    \A i \in DOMAIN verdicts :
        verdicts[i] = ~ ShowsPresent(topology_name, listings[i].stdout)

\* C3: with force = false no kill command is issued, no listing is requested
\* and the poll loop is not entered, whatever the job's state and the wait
\* value.
C3_NoKillWithoutForce ==
    ~ force =>
        /\ kills = << >>
        /\ ~ Called("kill")
        /\ listings = << >>
        /\ ~ Called("list")
        /\ polls = 0

\* The kill phase was passed with force = false while the job was ACTIVE.
C3_Witness ==
    /\ ~ force
    /\ wait = 5
    /\ submitState = "ACTIVE"

\* The first listing of the run succeeded and shows the job present.
FirstListingPresent ==
    /\ listings # << >>
    /\ listings[1].ok
    /\ ShowsPresent(topology_name, listings[1].stdout)

\* The first listing of the run succeeded and shows the job absent.
FirstListingAbsent ==
    /\ listings # << >>
    /\ listings[1].ok
    /\ ~ ShowsPresent(topology_name, listings[1].stdout)

\* C4: with force = true and the job present in the first listing, exactly
\* one kill command is issued, with the wait budget, and the phase returns
\* only after a later listing shows the job absent; the kill is never
\* re-issued; with the job absent in the first listing there is no kill
\* command and no poll.
C4_KillOnceThenPoll ==
    /\ Len(kills) <= 1
    /\ (FirstListingPresent /\ pc \notin {"kill", "failed"}) =>
            kills = << [name |-> topology_name, wait |-> wait] >>
    /\ (FirstListingPresent /\ Called("submit")) =>
            /\ Len(listings) > 1
            /\ ~ ShowsPresent(topology_name, Last(listings).stdout)
    /\ FirstListingAbsent =>
            /\ kills = << >>
            /\ Len(listings) = 1

\* C5: a failed list command ends the run at once: is_safe_to_submit gives
\* no verdict for it, the failed listing is the last call of the run (no
\* kill after it), and neither the submit command nor a post-submit hook
\* is ever called.
C5_ListFailurePropagates ==
    \A i \in DOMAIN listings :
        ~ listings[i].ok =>
            /\ i = Len(listings)
            /\ pc = "failed"
            /\ failedAt = "is_safe_to_submit"
            /\ Len(verdicts) = i - 1
            /\ Last(trace) = Threw("list")
            /\ ~ Called("submit")
            /\ ~ PostHooksCalled

\* The list command failed in a poll iteration, after the kill command.
C5_Witness ==
    /\ failedAt = "is_safe_to_submit"
    /\ Len(kills) = 1
    /\ polls >= 1
    /\ ~ Last(listings).ok

BuildCommandFailed == CallFailed("lein_clean") \/ CallFailed("lein_uberjar")

\* C6 as stated: a failed build command ends the run before any list, kill
\* or submit call, and no hook, pre-submit or post-submit, has run.
C6_BuildFailureNoHooksAtAll ==
    BuildCommandFailed =>
        /\ pc = "failed"
        /\ ~ Called("list") /\ ~ Called("kill") /\ ~ Called("submit")
        /\ ~ PreHooksCalled
        /\ ~ PostHooksCalled

\* C6 amended: a failed build command ends the run in failure with the
\* failed command as its last call: no tunnel, list, kill or submit call
\* and no post-submit hook; the pre-submit hooks ran before the build.
C6_BuildFailureAborts ==
    BuildCommandFailed =>
        /\ pc = "failed"
        /\ failedAt = "jar_for_deploy"
        /\ ~ Last(trace).ok
        /\ Last(trace).call \in {"lein_clean", "lein_uberjar"}
        /\ ~ Called("ssh_tunnel")
        /\ ~ Called("list") /\ ~ Called("kill") /\ ~ Called("submit")
        /\ ~ PostHooksCalled

\* lein uberjar failed in a run whose pre-submit hooks had been called.
C6_Witness ==
    /\ CallFailed("lein_uberjar")
    /\ Called("pre_submit_invoke")
    /\ Called("pre_submit_fabric")

\* C7: a post-submit hook is called only after a submit command that
\* succeeded, in a run where no build, tunnel, list or kill call failed.
C7_PostHooksOnlyAfterSubmit ==
    PostHooksCalled =>
        /\ \E i \in Calls("submit") :
              /\ trace[i].ok
              /\ \A j \in Calls("post_submit_invoke")
                          \cup Calls("post_submit_fabric") : i < j
        /\ \A c \in {"lein_clean", "lein_uberjar", "uberjar_path",
                     "ssh_tunnel", "list", "kill", "submit"} :
              ~ CallFailed(c)

\* Post-submit hooks ran through the tunnel after a kill and a submit.
C7_Witness ==
    /\ Called("post_submit_invoke")
    /\ Called("post_submit_fabric")
    /\ use_ssh
    /\ Len(kills) = 1

PreHookFailed ==
    CallFailed("pre_submit_invoke") \/ CallFailed("pre_submit_fabric")

\* C8: a pre-submit hook that raises ends the run with that call as its
\* last: no virtualenv update, build, tunnel, list, kill, submit or
\* post-submit hook follows; and the run fails at the pre-submit step only
\* when a hook raised (missing modules or callables are no error).
C8_PreHookRaiseAborts ==
    /\ PreHookFailed =>
          /\ pc = "failed"
          /\ failedAt = "pre_submit_hooks"
          /\ ~ Last(trace).ok
          /\ Last(trace).call \in {"pre_submit_invoke", "pre_submit_fabric"}
          /\ \A c \in {"create_or_update_virtualenvs", "lein_clean",
                       "lein_uberjar", "ssh_tunnel", "list", "kill",
                       "submit", "post_submit_invoke",
                       "post_submit_fabric"} : ~ Called(c)
    /\ failedAt = "pre_submit_hooks" => PreHookFailed

\* The fabric pre-submit hook raised in a run that uses a virtualenv.
C8_Witness ==
    /\ CallFailed("pre_submit_fabric")
    /\ use_venv
    /\ pc = "failed"

\* C9: no run ends with the tunnel open.
C9_TunnelClosedAtExit ==
    pc \in {"done", "failed"} =>
        /\ tunnel # "open"
        /\ (Called("ssh_tunnel") /\ ~ CallFailed("ssh_tunnel")) =>
                tunnel = "closed"

\* The run failed inside the with block, in the poll loop.
C9_Witness ==
    /\ pc = "failed"
    /\ failedAt = "is_safe_to_submit"
    /\ polls >= 1
    /\ tunnel = "closed"

\* The steps of section 4.5 of the specification: the sandbox is activated
\* and reconciled in step 2, the pre-submit hooks are step 3.
SpecStep(call) ==
    CASE call = "resolve" -> 1
      [] call \in {"activate_env", "create_or_update_virtualenvs"} -> 2
      [] call \in {"pre_submit_invoke", "pre_submit_fabric"} -> 3
      [] call \in {"lein_clean", "lein_uberjar", "uberjar_path"} -> 4
      [] call = "ssh_tunnel" -> 5
      [] call \in {"list", "kill"} -> 6
      [] call = "submit" -> 7
      [] call \in {"post_submit_invoke", "post_submit_fabric"} -> 8

\* C10 as stated: the calls of a run are in the order of the
\* specification's steps, the sandbox reconciliation before the pre-submit
\* hooks.
C10_SpecStepOrder ==
    \A i, j \in DOMAIN trace :
        i < j => SpecStep(trace[i].call) <= SpecStep(trace[j].call)

\* The order with the sandbox reconciliation after the pre-submit hooks.
CodeStep(call) ==
    CASE call = "resolve" -> 1
      [] call = "activate_env" -> 2
      [] call \in {"pre_submit_invoke", "pre_submit_fabric"} -> 3
      [] call = "create_or_update_virtualenvs" -> 4
      [] call \in {"lein_clean", "lein_uberjar", "uberjar_path"} -> 5
      [] call = "ssh_tunnel" -> 6
      [] call \in {"list", "kill"} -> 7
      [] call = "submit" -> 8
      [] call \in {"post_submit_invoke", "post_submit_fabric"} -> 9

\* C10 amended: the calls of a run are in the order resolve, sandbox
\* activation, pre-submit hooks, sandbox reconciliation, build, tunnel,
\* kill/poll, submit, post-submit hooks; a run that completes made every
\* step its configuration asks for.
C10_CodeStepOrder ==
    /\ \A i, j \in DOMAIN trace :
          i < j => CodeStep(trace[i].call) <= CodeStep(trace[j].call)
    /\ pc = "done" =>
          /\ Called("resolve") /\ Called("lein_uberjar") /\ Called("submit")
          /\ use_venv => (Called("activate_env")
                          /\ Called("create_or_update_virtualenvs"))
          /\ use_ssh => Called("ssh_tunnel")

\* A complete run with a sandbox, hooks, the tunnel and a kill.
C10_Witness ==
    /\ pc = "done"
    /\ use_venv
    /\ use_ssh
    /\ Called("pre_submit_invoke")
    /\ Called("post_submit_fabric")
    /\ Len(kills) = 1

\* C11: the tunnel is open only from the end of the build to the end of
\* the submit command: it is released before the post-submit hooks start,
\* and no post-submit hook finds it open.
C11_TunnelReleasedBeforePostHooks ==
    /\ tunnel = "open" =>
          /\ Called("uberjar_path")
          /\ pc \in {"kill_existing_topology", "kill", "poll", "submit"}
    /\ PostHooksCalled => hookTunnel # "open"

\* C12: once _submit_topology has returned or raised, JVM_OPTS of the
\* process is what it was before the call.
C12_JvmOptsRestored ==
    cmd # << >> => jvm_opts = env_jvm_opts

IsOptionArg(e) == e[1] = "--option "

\* The --option elements of cmd, in order.
EmittedOptions == SelectSeq(cmd, IsOptionArg)

\* C13: the first two options of the command are topology.workers=<workers>
\* and then topology.acker.executors=<ackers>, whatever the endpoint, the
\* debug flag, the configuration and the user options.
C13_WorkersThenAckersFirst ==
    cmd # << >> =>
        /\ Len(EmittedOptions) >= 2
        /\ EmittedOptions[1] =
              << "--option ", "SQ", "topology.workers", "=",
                 ToString(workers), "SQ" >>
        /\ EmittedOptions[2] =
              << "--option ", "SQ", "topology.acker.executors", "=",
                 ToString(ackers), "SQ" >>

\* A command with host, port, debug flag, interpreter path, a log path and
\* two user options, for workers = 0.
C13_Witness ==
    /\ cmd # << >>
    /\ workers = 0
    /\ ~ use_ssh
    /\ debug
    /\ use_venv
    /\ log_config.path # ""
    /\ Len(options) = 2

EqualSigns(o) == Cardinality({ i \in DOMAIN o : o[i] = "=" })

\* The part of a user option before its first `=`.
KeyOf(o) ==
    IF EqualSigns(o) = 0 THEN o
    ELSE SubSeq(o, 1, (CHOOSE i \in DOMAIN o :
                          o[i] = "=" /\ \A j \in 1..(i - 1) : o[j] # "=") - 1)

KeyHasReserved(o) == \E i \in DOMAIN KeyOf(o) : KeyOf(o)[i] = Reserved

\* What C14 says is passed for the user option o = key=value.
PassedFor(o) ==
    IF KeyHasReserved(o)
    THEN << "--option ", "SQ" >> \o KeyOf(o) \o << "=", "DQ" >>
            \o SubSeq(o, Len(KeyOf(o)) + 2, Len(o)) \o << "DQ", "SQ" >>
    ELSE << "--option " >> \o o

\* C14: the user options are the last options of the command that was run,
\* in their input order, duplicates included, each passed as it is unless
\* its key holds the reserved substring, in which case its value is quoted.
C14_UserOptionsPassedThrough ==
    Called("submit") =>
        LET n == Len(EmittedOptions) - Len(options) IN
        /\ n >= 0
        /\ \A i \in DOMAIN options :
              EmittedOptions[n + i] = PassedFor(options[i])

HasReserved(o) == \E i \in DOMAIN o : o[i] = Reserved

\* C15: a user option holding the reserved substring with no `=` or more
\* than one `=` makes _submit_topology raise before the command is run, and
\* no post-submit hook is called.
C15_MalformedOptionAborts ==
    ( /\ cmd # << >>
      /\ \E i \in DOMAIN options :
            HasReserved(options[i]) /\ EqualSigns(options[i]) # 1 ) =>
        /\ pc = "failed"
        /\ failedAt = "option_format"
        /\ ~ Called("submit")
        /\ submitState = "none"
        /\ ~ PostHooksCalled

\* The call raised on a second option with two `=`.
C15_Witness ==
    /\ pc = "failed"
    /\ options = << OptPlain, OptStageTwoEq >>
    /\ cmd # << >>

LogKeyOrder ==
    << "streamparse.log.path", "streamparse.log.max_bytes",
       "streamparse.log.backup_count", "streamparse.log.level" >>

\* The options of the command between the interpreter path and the user
\* options.
EmittedLogOptions ==
    SubSeq(EmittedOptions, 3 + (IF use_venv THEN 1 ELSE 0),
           Len(EmittedOptions) - Len(options))

LogOptionEmitted(key) ==
    \E i \in DOMAIN EmittedLogOptions : EmittedLogOptions[i][3] = key

MaxOf(S) == CHOOSE x \in S : \A y \in S : y <= x

\* C17: the poll loop goes on exactly as long as the listings show the job:
\* a run still in the loop has a last listing that shows the job present,
\* a run that left it for the submit step has a last listing that shows
\* the job absent, and the loop never ends in a timeout.
C17_PollEndsWhenAbsent ==
    /\ (pc = "poll" /\ Len(listings) >= 2) =>
            ShowsPresent(topology_name, Last(listings).stdout)
    /\ (kills # << >> /\ pc \in {"submit", "post_submit_hooks", "done"}) =>
            ~ ShowsPresent(topology_name, Last(listings).stdout)
    /\ (pc = "failed" /\ polls > 0) =>
            failedAt \in {"is_safe_to_submit", "option_format",
                          "submit_topology", "post_submit_hooks"}

\* C18 as stated: every verdict comes from its own list call, the number of
\* list calls equals the number of verdicts, and the verdict that ends the
\* poll loop comes from a listing taken after the kill command.
C18_ListCallsEqualVerdicts ==
    /\ Cardinality(Calls("list")) = Len(verdicts)
    /\ (Called("kill") /\ verdicts # << >> /\ Last(verdicts)) =>
            MaxOf(Calls("kill")) < MaxOf(Calls("list"))

\* C18 amended: every list call leaves one listing, every list call that
\* succeeded one verdict, computed from that listing (a failed list call
\* raises and gives none), and the verdict that ends the poll loop comes
\* from a listing taken after the kill command.
C18_FreshListingPerVerdict ==
    /\ Len(listings) = Cardinality(Calls("list"))
    /\ Len(verdicts) = Cardinality({ i \in Calls("list") : trace[i].ok })
    /\ \A i \in DOMAIN verdicts :
          /\ listings[i].ok
          /\ verdicts[i] = is_safe_to_submit(topology_name,
                                             listings[i].stdout)
    /\ (Called("kill") /\ verdicts # << >> /\ Last(verdicts)) =>
          /\ Len(verdicts) >= 2
          /\ MaxOf(Calls("kill")) < MaxOf(Calls("list"))

\* The loop ended after two polls, the second one safe.
C18_Witness ==
    /\ Len(kills) = 1
    /\ Len(verdicts) = 3
    /\ Last(verdicts)
    /\ pc = "submit"

OnceCalls ==
    {"resolve", "activate_env", "pre_submit_invoke", "pre_submit_fabric",
     "create_or_update_virtualenvs", "lein_clean", "lein_uberjar",
     "uberjar_path", "ssh_tunnel", "kill", "submit", "post_submit_invoke",
     "post_submit_fabric"}

\* C19: every call but the list command is made at most once in a run; the
\* submit command follows exactly one build, which succeeded, and is given
\* the standalone jar that build printed; a call that fails is the last
\* call of the run.
C19_BuildOnceSubmitOnce ==
    /\ \A c \in OnceCalls : Cardinality(Calls(c)) <= 1
    /\ cmd # << >> =>
          /\ Cardinality(Calls("lein_uberjar")) = 1
          /\ ~ CallFailed("lein_uberjar")
          /\ topology_jar = StandaloneJar
          /\ jvm_opts[1] = "-Dstorm.jar="
          /\ SubSeq(jvm_opts, 2, 1 + Len(StandaloneJar)) = StandaloneJar
    /\ Called("submit") => MaxOf(Calls("lein_uberjar")) < MaxOf(Calls("submit"))
    /\ \A i \in DOMAIN trace : ~ trace[i].ok => i = Len(trace) /\ pc = "failed"

\* A complete run after a kill, and so after several list calls.
C19_Witness ==
    /\ pc = "done"
    /\ Len(kills) = 1
    /\ Len(listings) >= 3
    /\ Called("submit")

====
